---- MODULE Spec2Model ----
(***************************************************************************)
(* State-machine model of the peripheral control core:                     *)
(*   - the LED command pipeline of led_dac5578/events.py (validators,      *)
(*     handlers, the Fade / Sunrise / Orbit sequences), and                *)
(*   - the fan / thermal manager of controller_adt7470/manager.py.         *)
(***************************************************************************)
EXTENDS Integers, Sequences, FiniteSets, TLC

VARIABLES
    mode,               \* events.py: self.mode
    config,             \* LED configuration: channel names (in dict order), panel count
    queue,              \* events.py: self.queue (entries carry a producer / ticket tag)
    channel_setpoints,  \* events.py: self.manager.channel_setpoints
    reported,           \* LED values last pushed into the state store
    pc,                 \* position of the dispatcher / of the running handler
    last,               \* observation: the last submission (ValSpec) or handler (Spec)
    accepted,           \* history: number of submissions accepted so far
    routed,             \* history: per producer, ticket of its last routed command
    extra,              \* history: output writes of the running sequence issued while
                        \* a newer command was already waiting in the queue
    since,              \* history: submissions accepted when the last command was routed
    led_health,         \* health of the LED peripheral (events.py never assigns it)
    fan_config,         \* manager.py: self.simulate, self.sensors, self.actuators
    fan_mode,           \* manager.py: self.mode
    health,             \* manager.py: self.health
    driver,             \* manager.py: whether self.driver has been constructed
    store,              \* reported sensor / actuator values in the state store
    fan_last            \* observation: the last manager operation and its driver I/O

ledVars == <<mode, config, queue, channel_setpoints, reported, pc, last,
             accepted, routed, extra, since, led_health>>

fanVars == <<fan_config, fan_mode, health, driver, store, fan_last>>

vars == <<ledVars, fanVars>>

-----------------------------------------------------------------------------
(* Bounds of the model *)

MaxQueue == 2
MaxAccept == 2
MaxPanels == 2

-----------------------------------------------------------------------------
(* Event types, events.py lines 20-25 *)

TURN_ON_EVENT == "Turn On"
TURN_OFF_EVENT == "Turn Off"
SET_CHANNEL_EVENT == "Set Channel"
FADE_EVENT == "Fade"
SUNRISE_EVENT == "Sunrise"
ORBIT_EVENT == "Orbit"

EventTypes == {TURN_ON_EVENT, TURN_OFF_EVENT, SET_CHANNEL_EVENT, FADE_EVENT,
               SUNRISE_EVENT, ORBIT_EVENT}

(* Modes (device.utilities.modes.Modes; the values of the Mode enum). *)
MANUAL == "MANUAL"
ERROR == "ERROR"
Modes == {"INIT", "SETUP", "NORMAL", MANUAL, ERROR, "SHUTDOWN"}

Producers == {"p1", "p2"}

-----------------------------------------------------------------------------
(* Python values used by set_channel.                                       *)
(* A str is the sequence of its characters; a float is a number or NaN.     *)

F(n) == [nan |-> FALSE, v |-> n]
NaN == [nan |-> TRUE, v |-> 0]

(* IEEE comparisons: every comparison with NaN is false. *)
FLess(a, b) == ~a.nan /\ ~b.nan /\ a.v < b.v
FGreater(a, b) == ~a.nan /\ ~b.nan /\ a.v > b.v

Range(s) == {s[i] : i \in 1..Len(s)}

(* str.split(sep): the fields between the occurrences of sep; always at     *)
(* least one field.                                                         *)
RECURSIVE split(_, _)
split(s, sep) ==
    IF \A i \in 1..Len(s) : s[i] # sep
    THEN <<s>>
    ELSE LET k == CHOOSE i \in 1..Len(s) :
                      s[i] = sep /\ \A j \in 1..(i - 1) : s[j] # sep
         IN <<SubSeq(s, 1, k - 1)>> \o split(SubSeq(s, k + 1, Len(s)), sep)

DigitChars == {"0", "1", "2", "3", "4", "5", "6", "7", "8", "9"}

DigitValue(c) ==
    CASE c = "0" -> 0 [] c = "1" -> 1 [] c = "2" -> 2 [] c = "3" -> 3
      [] c = "4" -> 4 [] c = "5" -> 5 [] c = "6" -> 6 [] c = "7" -> 7
      [] c = "8" -> 8 [] c = "9" -> 9

RECURSIVE DecimalValue(_)
DecimalValue(s) ==
    IF s = <<>> THEN 0
    ELSE 10 * DecimalValue(SubSeq(s, 1, Len(s) - 1)) + DigitValue(s[Len(s)])

IsDecimal(s) == s # <<>> /\ \A i \in 1..Len(s) : s[i] \in DigitChars

RECURSIVE strip(_)
strip(s) ==
    IF s # <<>> /\ s[1] = " " THEN strip(Tail(s))
    ELSE IF s # <<>> /\ s[Len(s)] = " " THEN strip(SubSeq(s, 1, Len(s) - 1))
    ELSE s

(* float(str), on the strings the model draws: surrounding blanks are       *)
(* stripped, "nan" is NaN, an optionally signed run of digits is its value, *)
(* anything else raises ValueError (ok = FALSE).                            *)
float(s) ==
    LET t == strip(s) IN
    IF t = <<"n", "a", "n">> THEN [ok |-> TRUE, f |-> NaN]
    ELSE IF IsDecimal(t) THEN [ok |-> TRUE, f |-> F(DecimalValue(t))]
    ELSE IF t # <<>> /\ t[1] = "-" /\ IsDecimal(Tail(t))
         THEN [ok |-> TRUE, f |-> F(0 - DecimalValue(Tail(t)))]
    ELSE [ok |-> FALSE, f |-> NaN]

-----------------------------------------------------------------------------
(* Configurations and the requests the producers draw *)

AllSix == <<"FR", "R", "WW", "CW", "G", "B">>
OnlyRed == <<"R">>

Configs ==
    { [channel_names |-> AllSix, panels |-> MaxPanels],
      [channel_names |-> AllSix, panels |-> 0],
      [channel_names |-> OnlyRed, panels |-> 1],
      [channel_names |-> <<>>, panels |-> 1] }

Str(s) == [kind |-> "str", chars |-> s]
NotAStr == [kind |-> "int", chars |-> <<>>]

PayloadStrings ==
    { <<"R", ",", "0">>,
      <<"R", ",", "4", "0">>,
      <<"R", ",", "1", "0", "0">>,
      <<"R", ",", " ", "4", "0">>,
      <<"R", ",", "4", "0", ",", "7">>,
      <<"B", ",", "1", "0", "0">>,
      <<"R", ",", "-", "1">>,
      <<"R", ",", "1", "0", "1">>,
      <<"R", ",", "1", "5", "0">>,
      <<"R", ",", "n", "a", "n">>,
      <<"R", ",", "a", "b", "c">>,
      <<"R", ",">>,
      <<"X", ",", "4", "0">>,
      <<"R">>,
      <<>> }

RawRequests ==
    { [type |-> t] : t \in EventTypes \cup {"Bogus"} }
    \cup { [type |-> SET_CHANNEL_EVENT, value |-> Str(s)] : s \in PayloadStrings }
    \cup { [type |-> t, value |-> Str(<<"R", ",", "4", "0">>)] : t \in EventTypes }
    \cup { [type |-> SET_CHANNEL_EVENT, value |-> NotAStr] }

(* The requests the producers of the whole pipeline draw. *)
PipelineRequests ==
    { [type |-> t] : t \in EventTypes }
    \cup { [type |-> SET_CHANNEL_EVENT, value |-> Str(s)] :
               s \in { <<"R", ",", "4", "0">>, <<"B", ",", "1", "0", "0">>,
                       <<"R", ",", "1", "5", "0">> } }

-----------------------------------------------------------------------------
(* Driver and manager operations the events module calls *)

channel_names == Range(config.channel_names)

(* driver.build_channel_outputs(value): every configured channel at value *)
build_channel_outputs(value) == [c \in channel_names |-> value]

(* driver.turn_on() / driver.turn_off(): the mapping the driver returns *)
driver_turn_on == build_channel_outputs(F(100))
driver_turn_off == build_channel_outputs(F(0))

-----------------------------------------------------------------------------
(* Validators / producers.  Each returns                                    *)
(*   status, message: the (message, status) tuple returned                  *)
(*   put:    the requests handed to self.queue.put (none or one)            *)
(*   driver: the driver operations called                                   *)

Response(message, status, put, calls) ==
    [message |-> message, status |-> status, put |-> put, driver |-> calls]

Reject(message, status) == Response(message, status, <<>>, <<>>)

turn_on ==
    IF mode # MANUAL THEN Reject("Must be in manual mode", 400)
    ELSE Response("Turning on", 200, <<[type |-> TURN_ON_EVENT]>>, <<>>)

(* Mutant of turn_off: the request queued is the one of turn_on. *)
turn_off_queues_turn_on ==
    IF mode # MANUAL THEN Reject("Must be in manual mode", 400)
    ELSE Response("Turning off", 200, <<[type |-> TURN_ON_EVENT]>>, <<>>)

turn_off ==
    IF mode # MANUAL THEN Reject("Must be in manual mode", 400)
    ELSE Response("Turning off", 200, <<[type |-> TURN_OFF_EVENT]>>, <<>>)

set_channel(request) ==
    IF mode # MANUAL THEN Reject("Must be in manual mode", 400)
    ELSE IF "value" \notin DOMAIN request
    THEN Reject("Unable to set channel, invalid request parameter", 400)
    ELSE IF request.value.kind # "str"
    THEN Reject("Unable to set channel, unhandled exception", 500)
    ELSE LET response == split(request.value.chars, ",") IN
    IF Len(response) < 2
    THEN Reject("Unable to set channel, unhandled exception", 500)
    ELSE LET channel == response[1]
             parsed == float(response[2])
             percent == parsed.f
         IN
    IF ~parsed.ok THEN Reject("Unable to set channel, ValueError", 400)
    ELSE IF channel \notin { <<c>> : c \in channel_names }
    THEN Reject("Invalid channel name", 400)
    ELSE IF FLess(percent, F(0)) \/ FGreater(percent, F(100))
    THEN Reject("Unable to set channel, invalid intensity", 400)
    ELSE Response("Setting channel", 200,
                  <<[type |-> SET_CHANNEL_EVENT, channel |-> channel[1],
                     percent |-> percent]>>, <<>>)

(* Mutant of fade: the mode check is missing. *)
fade_without_mode_check ==
    Response("Fading", 200, <<[type |-> FADE_EVENT]>>, <<>>)

fade ==
    IF mode # MANUAL THEN Reject("Must be in manual mode", 400)
    ELSE Response("Fading", 200, <<[type |-> FADE_EVENT]>>, <<>>)

required_channel_names == <<"R", "FR", "WW", "CW", "G", "B">>

(* Mutant of sunrise: only the first required channel is looked for. *)
sunrise_requires_red_only ==
    IF mode # MANUAL THEN Reject("Must be in manual mode", 400)
    ELSE LET names == DOMAIN build_channel_outputs(F(0)) IN
    IF required_channel_names[1] \notin names
    THEN Response("Config must have channel named", 500, <<>>,
                  <<"build_channel_outputs">>)
    ELSE Response("Starting sunrise demo", 200, <<[type |-> SUNRISE_EVENT]>>,
                  <<"build_channel_outputs">>)

sunrise ==
    IF mode # MANUAL THEN Reject("Must be in manual mode", 400)
    ELSE LET names == DOMAIN build_channel_outputs(F(0)) IN
    IF \E i \in 1..Len(required_channel_names) :
           required_channel_names[i] \notin names
    THEN Response("Config must have channel named", 500, <<>>,
                  <<"build_channel_outputs">>)
    ELSE Response("Starting sunrise demo", 200, <<[type |-> SUNRISE_EVENT]>>,
                  <<"build_channel_outputs">>)

orbit ==
    IF mode # MANUAL THEN Reject("Must be in manual mode", 400)
    ELSE LET names == DOMAIN build_channel_outputs(F(0)) IN
    IF \E i \in 1..Len(required_channel_names) :
           required_channel_names[i] \notin names
    THEN Response("Config must have channel named", 500, <<>>,
                  <<"build_channel_outputs">>)
    ELSE Response("Starting orbit demo", 200, <<[type |-> ORBIT_EVENT]>>,
                  <<"build_channel_outputs">>)

create_peripheral_specific_event(request) ==
    IF request.type = TURN_ON_EVENT THEN turn_on
    ELSE IF request.type = TURN_OFF_EVENT THEN turn_off
    ELSE IF request.type = SET_CHANNEL_EVENT THEN set_channel(request)
    ELSE IF request.type = FADE_EVENT THEN fade
    ELSE IF request.type = SUNRISE_EVENT THEN sunrise
    ELSE IF request.type = ORBIT_EVENT THEN orbit
    ELSE Reject("Unknown event request type", 400)

(* Mutant of queue_put: the request is put at the head of the queue. *)
queue_put_front(q, entry) == <<entry>> \o q

(* self.queue.put(request): the request joins the tail of the queue. *)
queue_put(q, entry) == Append(q, entry)

RECURSIVE PutAll(_, _, _, _)
PutAll(q, rs, p, n) ==
    IF rs = <<>> THEN q
    ELSE PutAll(queue_put(q, [request |-> Head(rs), producer |-> p,
                              ticket |-> n + 1]),
                Tail(rs), p, n + 1)

(* A producer p submits request: the effect of the validator on the queue.  *)
(* The model stops accepting after limit accepted submissions, and while    *)
(* MaxQueue commands are waiting.                                           *)
Enqueue(p, request, limit) ==
    LET r == create_peripheral_specific_event(request) IN
    /\ r.put # <<>> => (Len(queue) < MaxQueue /\ accepted < limit)
    /\ queue' = PutAll(queue, r.put, p, accepted)
    /\ accepted' = accepted + Len(r.put)

(* Submission as observed by its caller: the response is recorded. *)
Submit(p, request) ==
    /\ Enqueue(p, request, MaxAccept)
    /\ last' = [op |-> "create", request |-> request,
                response |-> create_peripheral_specific_event(request)]
    /\ UNCHANGED <<mode, config, channel_setpoints, reported, pc, routed, extra,
                   since, led_health, fanVars>>


-----------------------------------------------------------------------------
(* Handlers.  outcome is what the handler's driver call does: it returns    *)
(* ("ok"), raises DriverError, or raises some other exception.              *)

Outcomes == {"ok", "DriverError", "Exception"}

Idle == [h |-> "idle"]

Handled(request, outcome) ==
    [op |-> "handle", type |-> request.type, request |-> request,
     outcome |-> outcome]

(* manager.update_reported_variables(): the setpoints are pushed into the   *)
(* state store.                                                             *)
update_reported_variables(setpoints) == setpoints

(* Mutant of _turn_on: the setpoints are assigned whatever the driver call  *)
(* does.                                                                    *)
_turn_on_assigns_first(outcome) ==
    /\ channel_setpoints' = driver_turn_on
    /\ IF outcome = "ok"
       THEN /\ reported' = update_reported_variables(channel_setpoints')
            /\ mode' = mode
       ELSE /\ mode' = ERROR
            /\ UNCHANGED reported
    /\ pc' = Idle
    /\ last' = Handled([type |-> TURN_ON_EVENT], outcome)
    /\ extra' = 0

_turn_on(outcome) ==
    /\ IF outcome = "ok"
       THEN /\ channel_setpoints' = driver_turn_on
            /\ reported' = update_reported_variables(channel_setpoints')
            /\ mode' = mode
       ELSE /\ mode' = ERROR
            /\ UNCHANGED <<channel_setpoints, reported>>
    /\ pc' = Idle
    /\ last' = Handled([type |-> TURN_ON_EVENT], outcome)
    /\ extra' = 0

_turn_off(outcome) ==
    /\ IF outcome = "ok"
       THEN /\ channel_setpoints' = driver_turn_off
            /\ reported' = update_reported_variables(channel_setpoints')
            /\ mode' = mode
       ELSE /\ mode' = ERROR
            /\ UNCHANGED <<channel_setpoints, reported>>
    /\ pc' = Idle
    /\ last' = Handled([type |-> TURN_OFF_EVENT], outcome)
    /\ extra' = 0

(* Mutant of _set_channel: the setpoint is not stored. *)
_set_channel_keeps_setpoints(request, outcome) ==
    /\ IF outcome = "ok"
       THEN /\ channel_setpoints' = channel_setpoints
            /\ reported' = update_reported_variables(channel_setpoints')
            /\ mode' = mode
       ELSE /\ mode' = ERROR
            /\ UNCHANGED <<channel_setpoints, reported>>
    /\ pc' = Idle
    /\ last' = Handled(request, outcome)
    /\ extra' = 0

_set_channel(request, outcome) ==
    LET channel == request.channel
        percent == request.percent
    IN
    /\ IF outcome = "ok"
       THEN /\ channel_setpoints' =
                   [c \in DOMAIN channel_setpoints \cup {channel} |->
                        IF c = channel THEN percent ELSE channel_setpoints[c]]
            /\ reported' = update_reported_variables(channel_setpoints')
            /\ mode' = mode
       ELSE /\ mode' = ERROR
            /\ UNCHANGED <<channel_setpoints, reported>>
    /\ pc' = Idle
    /\ last' = Handled(request, outcome)
    /\ extra' = 0

-----------------------------------------------------------------------------
(* Sequences.  A handler that has passed its initial turn-off keeps the     *)
(* dispatcher at a position inside its loop; each step below is one driver  *)
(* output write together with the queue check (and the wait) that follows   *)
(* it in the code.                                                          *)

Pending == IF queue # <<>> THEN 1 ELSE 0

(* The handler returns. *)
Return(type, outcome) ==
    /\ pc' = Idle
    /\ last' = Handled([type |-> type], outcome)

fade_up == <<0, 1, 3, 5, 9, 13, 17, 22, 27, 33, 39, 46, 53, 60, 68, 76, 84, 93, 100>>
fade_down == <<100, 93, 84, 76, 68, 60, 53, 46, 39, 33, 27, 22, 17, 13, 9, 5, 3, 1, 0>>

(* Mutant of _fade: what turn_off returns is stored, as _turn_off does. *)
_fade_stores_turn_off(outcome) ==
    /\ IF outcome # "ok"
       THEN Return(FADE_EVENT, "turn off failed") /\ UNCHANGED channel_setpoints
       ELSE /\ pc' = [h |-> "fade", ci |-> 1, dir |-> "up", si |-> 1]
            /\ last' = Handled([type |-> FADE_EVENT], "running")
            /\ channel_setpoints' = driver_turn_off
    /\ extra' = 0
    /\ UNCHANGED <<mode, reported>>

_fade(outcome) ==
    /\ IF outcome # "ok"
       THEN Return(FADE_EVENT, "turn off failed")
       ELSE /\ pc' = [h |-> "fade", ci |-> 1, dir |-> "up", si |-> 1]
            /\ last' = Handled([type |-> FADE_EVENT], "running")
    /\ extra' = 0
    /\ UNCHANGED <<mode, channel_setpoints, reported>>

(* driver.set_output(channel_name, step) of the pass the handler is at. *)
fade_output ==
    [channel |-> config.channel_names[pc.ci],
     percent |-> IF pc.dir = "up" THEN fade_up[pc.si] ELSE fade_down[pc.si]]

(* Mutant of fade_step: the checkpoint takes the waiting command off the    *)
(* queue.                                                                   *)
fade_step_takes_command(outcome) ==
    /\ pc.h = "fade"
    /\ IF config.channel_names = <<>>
       THEN outcome = "ok" /\ UNCHANGED <<pc, last, extra, queue>>
       ELSE IF outcome # "ok"
       THEN Return(FADE_EVENT, "aborted") /\ UNCHANGED <<extra, queue>>
       ELSE /\ extra' = extra + Pending
            /\ IF queue # <<>>
               THEN Return(FADE_EVENT, "preempted") /\ queue' = Tail(queue)
               ELSE /\ last' = last
                    /\ queue' = queue
                    /\ pc' = IF pc.si < Len(fade_up)
                             THEN [pc EXCEPT !.si = pc.si + 1]
                             ELSE IF pc.dir = "up"
                             THEN [pc EXCEPT !.dir = "down", !.si = 1]
                             ELSE [pc EXCEPT !.dir = "up", !.si = 1,
                                   !.ci = IF pc.ci < Len(config.channel_names)
                                          THEN pc.ci + 1 ELSE 1]
    /\ UNCHANGED <<mode, config, channel_setpoints, reported,
                   accepted, routed, since, led_health, fanVars>>

(* One pass of the innermost loop body of _fade: set_output, then the queue *)
(* check.  With no channel the "while True" body is empty.                  *)
fade_step(outcome) ==
    /\ pc.h = "fade"
    /\ IF config.channel_names = <<>>
       THEN outcome = "ok" /\ UNCHANGED <<pc, last, extra>>
       ELSE IF outcome # "ok"
       THEN Return(FADE_EVENT, "aborted") /\ UNCHANGED extra
       ELSE /\ extra' = extra + Pending
            /\ IF queue # <<>>
               THEN Return(FADE_EVENT, "preempted")
               ELSE /\ last' = last
                    /\ pc' = IF pc.si < Len(fade_up)
                             THEN [pc EXCEPT !.si = pc.si + 1]
                             ELSE IF pc.dir = "up"
                             THEN [pc EXCEPT !.dir = "down", !.si = 1]
                             ELSE [pc EXCEPT !.dir = "up", !.si = 1,
                                   !.ci = IF pc.ci < Len(config.channel_names)
                                          THEN pc.ci + 1 ELSE 1]
    /\ UNCHANGED <<mode, config, queue, channel_setpoints, reported,
                   accepted, routed, since, led_health, fanVars>>

steps_delta_slow == 1
steps_delta_fast == 10
steps_min == 0
steps_max == 100
channel_lists == << <<"FR">>, <<"R">>, <<"WW">>, <<"CW">> >>

Reverse(s) == [i \in 1..Len(s) |-> s[Len(s) + 1 - i]]

(* "step_delta = steps_delta_dast" names an undefined variable: a list of   *)
(* more than one channel raises NameError.                                  *)
step_delta(channel_list) ==
    IF Len(channel_list) = 1
    THEN [raises |-> FALSE, value |-> steps_delta_slow]
    ELSE [raises |-> TRUE, value |-> 0]

SunriseLists(phase) ==
    IF phase = "rise" THEN channel_lists ELSE Reverse(channel_lists)

SunriseStart(phase) == IF phase = "rise" THEN steps_min ELSE steps_max

SunriseAt(phase, li, k) ==
    [h |-> "sunrise", phase |-> phase, li |-> li, k |-> k,
     step |-> SunriseStart(phase), at |-> "ramp"]

_sunrise(outcome) ==
    /\ IF outcome # "ok"
       THEN Return(SUNRISE_EVENT, "turn off failed")
       ELSE IF step_delta(channel_lists[1]).raises
       THEN Return(SUNRISE_EVENT, "NameError")
       ELSE /\ pc' = SunriseAt("rise", 1, 1)
            /\ last' = Handled([type |-> SUNRISE_EVENT], "running")
    /\ extra' = 0
    /\ UNCHANGED <<mode, channel_setpoints, reported>>

(* One output write of _sunrise.  A failing set_output is logged and the    *)
(* loop goes on.  at = "ramp": the body of the "while step" loop (write,    *)
(* step change, queue check, wait).  at = "final": the write of steps_max / *)
(* steps_min after the loop, followed at the end of the phase by the hold   *)
(* and its queue check.                                                     *)
sunrise_step(outcome) ==
    /\ pc.h = "sunrise"
    /\ extra' = extra + Pending
    /\ LET lists == SunriseLists(pc.phase)
           delta == step_delta(lists[pc.li]).value
           next == IF pc.phase = "rise" THEN pc.step + delta ELSE pc.step - delta
           more == IF pc.phase = "rise" THEN next <= steps_max ELSE next >= steps_min
           other == IF pc.phase = "rise" THEN "set" ELSE "rise"
       IN
       IF pc.at = "ramp"
       THEN IF queue # <<>>
            THEN Return(SUNRISE_EVENT, "preempted")
            ELSE /\ last' = last
                 /\ pc' = [pc EXCEPT !.step = next,
                                     !.at = IF more THEN "ramp" ELSE "final"]
       ELSE IF pc.k < Len(lists[pc.li])
       THEN pc' = SunriseAt(pc.phase, pc.li, pc.k + 1) /\ last' = last
       ELSE IF pc.li < Len(lists)
       THEN IF step_delta(lists[pc.li + 1]).raises
            THEN Return(SUNRISE_EVENT, "NameError")
            ELSE pc' = SunriseAt(pc.phase, pc.li + 1, 1) /\ last' = last
       ELSE IF queue # <<>>
       THEN Return(SUNRISE_EVENT, "preempted")
       ELSE IF step_delta(SunriseLists(other)[1]).raises
       THEN Return(SUNRISE_EVENT, "NameError")
       ELSE pc' = SunriseAt(other, 1, 1) /\ last' = last
    /\ UNCHANGED <<mode, config, queue, channel_setpoints, reported,
                   accepted, routed, since, led_health, fanVars>>

(* Mutant of _orbit: a failing turn-off is escalated as in _turn_off. *)
_orbit_escalates(outcome) ==
    /\ IF outcome # "ok"
       THEN Return(ORBIT_EVENT, "turn off failed") /\ mode' = ERROR
       ELSE /\ pc' = [h |-> "orbit", at |-> "top", pi |-> 0]
            /\ last' = Handled([type |-> ORBIT_EVENT], "running")
            /\ mode' = mode
    /\ extra' = 0
    /\ UNCHANGED <<channel_setpoints, reported>>

_orbit(outcome) ==
    /\ IF outcome # "ok"
       THEN Return(ORBIT_EVENT, "turn off failed")
       ELSE /\ pc' = [h |-> "orbit", at |-> "top", pi |-> 0]
            /\ last' = Handled([type |-> ORBIT_EVENT], "running")
    /\ extra' = 0
    /\ UNCHANGED <<mode, channel_setpoints, reported>>

(* Mutant of orbit_step: the handler returns after one round of the panels. *)
orbit_step_one_round(outcome) ==
    /\ pc.h = "orbit"
    /\ IF pc.at = "top"
       THEN /\ outcome = "ok"
            /\ extra' = extra
            /\ IF queue # <<>>
               THEN Return(ORBIT_EVENT, "preempted")
               ELSE /\ last' = last
                    /\ pc' = IF config.panels = 0 THEN pc
                             ELSE [pc EXCEPT !.at = "panel", !.pi = 1]
       ELSE IF outcome # "ok"
       THEN Return(ORBIT_EVENT, "aborted") /\ UNCHANGED extra
       ELSE /\ extra' = extra + Pending
            /\ IF queue # <<>>
               THEN Return(ORBIT_EVENT, "preempted")
               ELSE IF pc.pi < config.panels
               THEN pc' = [pc EXCEPT !.pi = pc.pi + 1] /\ last' = last
               ELSE Return(ORBIT_EVENT, "done")
    /\ UNCHANGED <<mode, config, queue, channel_setpoints, reported,
                   accepted, routed, since, led_health, fanVars>>

(* at = "top": the queue check that opens the "while True" body of _orbit.  *)
(* at = "panel": the write to panel pi, the queue check and the wait.       *)
orbit_step(outcome) ==
    /\ pc.h = "orbit"
    /\ IF pc.at = "top"
       THEN /\ outcome = "ok"
            /\ extra' = extra
            /\ IF queue # <<>>
               THEN Return(ORBIT_EVENT, "preempted")
               ELSE /\ last' = last
                    /\ pc' = IF config.panels = 0 THEN pc
                             ELSE [pc EXCEPT !.at = "panel", !.pi = 1]
       ELSE IF outcome # "ok"
       THEN Return(ORBIT_EVENT, "aborted") /\ UNCHANGED extra
       ELSE /\ extra' = extra + Pending
            /\ IF queue # <<>>
               THEN Return(ORBIT_EVENT, "preempted")
               ELSE /\ last' = last
                    /\ pc' = IF pc.pi < config.panels
                             THEN [pc EXCEPT !.pi = pc.pi + 1]
                             ELSE [pc EXCEPT !.at = "top", !.pi = 0]
    /\ UNCHANGED <<mode, config, queue, channel_setpoints, reported,
                   accepted, routed, since, led_health, fanVars>>

(* The running handler is in a time.sleep that the next output write        *)
(* follows with no queue check in between: the 1 ms between the two ramps   *)
(* of _fade, the 1 ms between two steps of _sunrise (the write after the    *)
(* ramp included), the 0.5 s between two panels of _orbit.                  *)
InWait ==
    \/ pc.h = "fade" /\ pc.dir = "down" /\ pc.si = 1
    \/ pc.h = "sunrise" /\ pc.at = "ramp" /\ pc.step # SunriseStart(pc.phase)
    \/ pc.h = "sunrise" /\ pc.at = "final"
    \/ pc.h = "orbit" /\ pc.at = "panel" /\ pc.pi > 1

-----------------------------------------------------------------------------
(* Dispatcher *)

check_peripheral_specific_events(request, outcome) ==
    IF request.type = TURN_ON_EVENT THEN _turn_on(outcome)
    ELSE IF request.type = TURN_OFF_EVENT THEN _turn_off(outcome)
    ELSE IF request.type = SET_CHANNEL_EVENT THEN _set_channel(request, outcome)
    ELSE IF request.type = FADE_EVENT THEN _fade(outcome)
    ELSE IF request.type = SUNRISE_EVENT THEN _sunrise(outcome)
    ELSE IF request.type = ORBIT_EVENT THEN _orbit(outcome)
    ELSE /\ last' = Handled(request, "invalid")
         /\ UNCHANGED <<mode, channel_setpoints, reported, pc, extra>>

(* The single consumer: when no handler is running it takes the head of the *)
(* queue and routes it to its handler.                                      *)
check_events(outcome) ==
    /\ pc = Idle
    /\ queue # <<>>
    /\ queue' = Tail(queue)
    /\ routed' = [routed EXCEPT ![Head(queue).producer] = Head(queue).ticket]
    /\ since' = accepted
    /\ check_peripheral_specific_events(Head(queue).request, outcome)
    /\ UNCHANGED <<config, accepted, led_health, fanVars>>

(* A producer submits a request; nothing but the queue records it. *)
Produce(p, request, limit) ==
    /\ Enqueue(p, request, limit)
    /\ UNCHANGED <<mode, config, channel_setpoints, reported, pc, last,
                   routed, extra, since, led_health, fanVars>>

-----------------------------------------------------------------------------
(* The fan / thermal manager, controller_adt7470/manager.py *)

None == <<>>
Some(v) == <<v>>

Sensor(id, name) == [sensor_id |-> id, variable_name |-> name]

Actuator(id, tach, control) ==
    [fan_id |-> id,
     duty_cycle_name |-> <<"duty", id>>,
     fan_speed_name |-> <<"speed", id>>,
     tachometer_enabled |-> tach,
     control_sensor_id |-> control]

FanConfigs ==
    { [simulate |-> FALSE,
       sensors |-> <<Sensor(1, <<"temp", 0>>)>>,
       actuators |-> <<Actuator(1, TRUE, None)>>],
      [simulate |-> FALSE,
       sensors |-> <<Sensor(1, <<"temp", 0>>)>>,
       actuators |-> <<Actuator(1, FALSE, Some(1)), Actuator(2, TRUE, None)>>],
      [simulate |-> FALSE,
       sensors |-> <<Sensor(1, <<"temp", 0>>)>>,
       actuators |-> <<Actuator(1, TRUE, None), Actuator(2, FALSE, None)>>],
      [simulate |-> FALSE, sensors |-> <<>>, actuators |-> <<>>],
      [simulate |-> TRUE,
       sensors |-> <<Sensor(1, <<"temp", 0>>)>>,
       actuators |-> <<Actuator(1, TRUE, None)>>] }

(* Values the driver reads back *)
Temperatures == {21}
DutyCycles == {0, 40}
FanSpeeds == {0, 1200}

Reading(duty, speed) == [duty_cycle |-> duty, fan_speed |-> speed]
Readings == { Reading(d, v) : d \in DutyCycles, v \in FanSpeeds }

(* state.set_..._reported_..._value *)
set_sensor(st, name, value) ==
    [n \in DOMAIN st \cup {name} |-> IF n = name THEN value ELSE st[n]]

set_actuator(st, name, value) ==
    [n \in DOMAIN st \cup {name} |-> IF n = name THEN value ELSE st[n]]

RECURSIVE ClearSensors(_, _)
ClearSensors(st, sensors) ==
    IF sensors = <<>> THEN st
    ELSE ClearSensors(set_sensor(st, Head(sensors).variable_name, None),
                      Tail(sensors))

RECURSIVE ClearActuators(_, _)
ClearActuators(st, actuators) ==
    IF actuators = <<>> THEN st
    ELSE ClearActuators(
             set_actuator(set_actuator(st, Head(actuators).duty_cycle_name, None),
                          Head(actuators).fan_speed_name, None),
             Tail(actuators))

clear_reported_values(st) ==
    ClearActuators(ClearSensors(st, fan_config.sensors), fan_config.actuators)

FanDid(op, outcome, calls, readings) ==
    [op |-> op, outcome |-> outcome, calls |-> calls, readings |-> readings]

(* Mutant of initialize_peripheral: a successful initialization puts Mode   *)
(* back to MANUAL.                                                          *)
initialize_peripheral_resets_mode(outcome) ==
    /\ store' = clear_reported_values(store)
    /\ IF fan_config.simulate
       THEN /\ health' = 100
            /\ UNCHANGED <<driver, fan_mode>>
            /\ fan_last' = FanDid("initialize", "simulate", 0, <<>>)
       ELSE IF outcome = "ok"
       THEN /\ health' = 100
            /\ driver' = TRUE
            /\ fan_mode' = MANUAL
            /\ fan_last' = FanDid("initialize", "ok", 1, <<>>)
       ELSE /\ health' = 0
            /\ fan_mode' = ERROR
            /\ driver' = driver
            /\ fan_last' = FanDid("initialize", "DriverError", 0, <<>>)
    /\ UNCHANGED <<fan_config, ledVars>>

(* outcome: what constructing the driver does ("ok" or "DriverError") *)
initialize_peripheral(outcome) ==
    /\ store' = clear_reported_values(store)
    /\ IF fan_config.simulate
       THEN /\ health' = 100
            /\ UNCHANGED <<driver, fan_mode>>
            /\ fan_last' = FanDid("initialize", "simulate", 0, <<>>)
       ELSE IF outcome = "ok"
       THEN /\ health' = 100
            /\ driver' = TRUE
            /\ fan_mode' = fan_mode
            /\ fan_last' = FanDid("initialize", "ok", 1, <<>>)
       ELSE /\ health' = 0
            /\ fan_mode' = ERROR
            /\ driver' = driver
            /\ fan_last' = FanDid("initialize", "DriverError", 0, <<>>)
    /\ UNCHANGED <<fan_config, ledVars>>

(* Driver calls of setup_peripheral, in order: the drive mode (when there   *)
(* is an actuator), enable_manual_fan_control and write_current_duty_cycle  *)
(* per tachometer fan, enable_monitoring, read_fan_speed per tachometer fan *)
(* after the 5 s wait, then one call per manual fan and five per automatic  *)
(* fan.                                                                     *)
(* Mutant of TachFans: every fan is taken to have a tachometer. *)
TachFans_every_fan == 1..Len(fan_config.actuators)

TachFans == { j \in 1..Len(fan_config.actuators) :
                  fan_config.actuators[j].tachometer_enabled }

RECURSIVE LimitCalls(_)
LimitCalls(actuators) ==
    IF actuators = <<>> THEN 0
    ELSE (IF Head(actuators).control_sensor_id = None THEN 1 ELSE 5)
         + LimitCalls(Tail(actuators))

SetupCalls ==
    (IF Len(fan_config.actuators) > 0 THEN 1 ELSE 0)
    + 2 * Cardinality(TachFans) + 1 + Cardinality(TachFans)
    + LimitCalls(fan_config.actuators)

(* The number of the read_fan_speed call that verifies tachometer fan j. *)
VerifyCall(j) ==
    (IF Len(fan_config.actuators) > 0 THEN 1 ELSE 0)
    + 2 * Cardinality(TachFans) + 1 + Cardinality({ k \in TachFans : k <= j })

(* self.health once `made` driver calls have returned: a verified fan that  *)
(* stands still lowers it to 60.                                            *)
VerifiedHealth(speeds, made) ==
    IF \E j \in TachFans : VerifyCall(j) <= made /\ speeds[j] = 0
    THEN 60 ELSE health

(* Mutant of setup_except: Mode is left as it was. *)
setup_except_keeps_mode(h) == [mode |-> fan_mode, health |-> 0]

(* Mutant of setup_except: the health reached before the failure is kept. *)
setup_except_keeps_health(h) == [mode |-> ERROR, health |-> h]

(* except exceptions.DriverError: whatever health h the try block had       *)
(* reached is overwritten.                                                  *)
setup_except(h) == [mode |-> ERROR, health |-> 0]

(* speeds[j] is what read_fan_speed returns for actuator j after the wait;  *)
(* fail_at is the number of the driver call that raises DriverError.        *)
setup_peripheral(speeds, fail_at) ==
    /\ IF fan_config.simulate
       THEN /\ UNCHANGED <<health, fan_mode>>
            /\ fan_last' = FanDid("setup", "simulate", 0, <<>>)
       ELSE IF ~driver
       THEN /\ UNCHANGED <<health, fan_mode>>
            /\ fan_last' = FanDid("setup", "AttributeError", 0, <<>>)
       ELSE IF fail_at # 0
       THEN LET e == setup_except(VerifiedHealth(speeds, fail_at - 1))
            IN /\ fan_mode' = e.mode
               /\ health' = e.health
               /\ fan_last' = FanDid("setup", "DriverError", fail_at - 1, speeds)
       ELSE /\ fan_mode' = fan_mode
            /\ health' = VerifiedHealth(speeds, SetupCalls)
            /\ fan_last' = FanDid("setup", "ok", SetupCalls, speeds)
    /\ UNCHANGED <<fan_config, driver, store, ledVars>>

(* One update pass.  temps[i] is what read_temperature returns for sensor   *)
(* i, readings[j] what read_current_duty_cycle and read_fan_speed return    *)
(* for actuator j; fail_at is the number of the driver call that raises     *)
(* DriverError (0: none).  The pass is folded over the sensors and then the *)
(* actuators, carrying the store, the local health, the number of driver    *)
(* calls made and whether the pass has failed.                              *)
RECURSIVE UpdateSensors(_, _, _, _)
UpdateSensors(acc, sensors, temps, fail_at) ==
    IF sensors = <<>> \/ acc.failed THEN acc
    ELSE IF fail_at = acc.calls + 1
    THEN [acc EXCEPT !.failed = TRUE]
    ELSE UpdateSensors(
             [acc EXCEPT !.calls = acc.calls + 1,
                         !.store = set_sensor(acc.store, Head(sensors).variable_name,
                                              Some(Head(temps)))],
             Tail(sensors), Tail(temps), fail_at)

(* Mutant of UnverifiedFan: the tachometer flag is not looked at. *)
UnverifiedFan_any_fan(actuator, reading) ==
    reading.duty_cycle > 0 /\ reading.fan_speed = 0

UnverifiedFan(actuator, reading) ==
    actuator.tachometer_enabled /\ reading.duty_cycle > 0 /\ reading.fan_speed = 0

(* Mutant of UpdateActuators: a failed read marks the pass failed, and the  *)
(* pass goes on with the next actuator.                                     *)
RECURSIVE UpdateActuators_goes_on(_, _, _, _)
UpdateActuators_goes_on(acc, actuators, readings, fail_at) ==
    IF actuators = <<>> THEN acc
    ELSE IF fail_at = acc.calls + 1 \/ fail_at = acc.calls + 2
    THEN UpdateActuators_goes_on([acc EXCEPT !.failed = TRUE,
                                             !.calls = acc.calls + 2],
                                 Tail(actuators), Tail(readings), fail_at)
    ELSE LET a == Head(actuators)
             r == Head(readings)
         IN UpdateActuators_goes_on(
                [acc EXCEPT
                    !.calls = acc.calls + 2,
                    !.store = set_actuator(
                                  set_actuator(acc.store, a.duty_cycle_name,
                                               Some(r.duty_cycle)),
                                  a.fan_speed_name, Some(r.fan_speed))],
                Tail(actuators), Tail(readings), fail_at)

RECURSIVE UpdateActuators(_, _, _, _)
UpdateActuators(acc, actuators, readings, fail_at) ==
    IF actuators = <<>> \/ acc.failed THEN acc
    ELSE IF fail_at = acc.calls + 1 \/ fail_at = acc.calls + 2
    THEN [acc EXCEPT !.failed = TRUE, !.calls = fail_at - 1]
    ELSE LET a == Head(actuators)
             r == Head(readings)
         IN UpdateActuators(
                [acc EXCEPT
                    !.calls = acc.calls + 2,
                    !.store = set_actuator(
                                  set_actuator(acc.store, a.duty_cycle_name,
                                               Some(r.duty_cycle)),
                                  a.fan_speed_name, Some(r.fan_speed)),
                    !.health = IF UnverifiedFan(a, r) THEN 60 ELSE acc.health],
                Tail(actuators), Tail(readings), fail_at)

UpdateCalls == Len(fan_config.sensors) + 2 * Len(fan_config.actuators)

update_peripheral(temps, readings, fail_at) ==
    /\ IF fan_config.simulate
       THEN /\ UNCHANGED <<store, health, fan_mode>>
            /\ fan_last' = FanDid("update", "simulate", 0, <<>>)
       ELSE IF ~driver /\ UpdateCalls > 0
       THEN /\ UNCHANGED <<store, health, fan_mode>>
            /\ fan_last' = FanDid("update", "AttributeError", 0, <<>>)
       ELSE LET start == [store |-> store, health |-> 100, calls |-> 0,
                          failed |-> FALSE]
                s1 == UpdateSensors(start, fan_config.sensors, temps, fail_at)
                s2 == UpdateActuators([s1 EXCEPT !.health = 100],
                                      fan_config.actuators, readings, fail_at)
            IN /\ store' = s2.store
               /\ IF s2.failed
                  THEN /\ fan_mode' = ERROR
                       /\ health' = 0
                       /\ fan_last' = FanDid("update", "DriverError", s2.calls,
                                             readings)
                  ELSE /\ fan_mode' = fan_mode
                       /\ health' = s2.health
                       /\ fan_last' = FanDid("update", "ok", s2.calls, readings)
    /\ UNCHANGED <<fan_config, driver, ledVars>>

reset_peripheral ==
    /\ store' = clear_reported_values(store)
    /\ fan_last' = FanDid("reset", "ok", 0, <<>>)
    /\ UNCHANGED <<fan_config, fan_mode, health, driver, ledVars>>

(* outcome: what driver.shutdown() does.  Without a driver handle the       *)
(* attribute lookup raises AttributeError, which nothing catches.           *)
shutdown_peripheral(outcome) ==
    /\ IF ~driver
       THEN /\ store' = store
            /\ fan_last' = FanDid("shutdown", "AttributeError", 0, <<>>)
       ELSE /\ store' = clear_reported_values(store)
            /\ fan_last' = FanDid("shutdown", outcome, 1, <<>>)
    /\ UNCHANGED <<fan_config, fan_mode, health, driver, ledVars>>

-----------------------------------------------------------------------------
(* Initial states *)

LedInit ==
    /\ mode \in Modes
    /\ config \in Configs
    /\ queue = <<>>
    /\ channel_setpoints = build_channel_outputs(F(0))
    /\ reported = channel_setpoints
    /\ pc = [h |-> "idle"]
    /\ last = [op |-> "none"]
    /\ accepted = 0
    /\ routed = [p \in Producers |-> 0]
    /\ extra = 0
    /\ since = 0
    /\ led_health = 100

FanInit ==
    /\ fan_config \in FanConfigs
    /\ fan_mode \in {"NORMAL", MANUAL}
    /\ health = 100
    /\ driver = FALSE
    /\ store = clear_reported_values(<<>>)
    /\ fan_last = FanDid("none", "ok", 0, <<>>)

(* The LED pipeline with the fan manager at rest, and the reverse. *)
FanAtRest ==
    /\ FanInit
    /\ fan_config.sensors = <<>> /\ ~fan_config.simulate
    /\ fan_mode = MANUAL

LedAtRest ==
    /\ LedInit
    /\ mode = MANUAL
    /\ config.channel_names = <<>>

Init == LedInit /\ FanAtRest

(* The submission surface alone: producers call the validators. *)
ValNext == \E request \in RawRequests : Submit("p1", request)

ValSpec == Init /\ [][ValNext]_vars

(* The whole pipeline: producers, the dispatcher and the running sequence. *)
Next ==
    \/ \E request \in PipelineRequests : Produce("p1", request, MaxAccept)
    \/ \E outcome \in Outcomes : check_events(outcome)
    \/ \E outcome \in Outcomes : fade_step(outcome)
    \/ \E outcome \in Outcomes : sunrise_step(outcome)
    \/ \E outcome \in Outcomes : orbit_step(outcome)

Spec == Init /\ [][Next]_vars

(* Several producers in front of a one-channel peripheral (Sunrise and      *)
(* Orbit are never accepted there, so their steps are never enabled); the   *)
(* small peripheral leaves room for one more accepted submission.           *)
FifoInit == Init /\ mode = MANUAL /\ config.channel_names = OnlyRed

FifoNext ==
    \/ \E p \in Producers, request \in PipelineRequests :
           Produce(p, request, MaxAccept + 1)
    \/ \E outcome \in Outcomes : check_events(outcome)
    \/ \E outcome \in Outcomes : fade_step(outcome)

FifoSpec == FifoInit /\ [][FifoNext]_vars

(* The fan manager driven by its scheduler: the lifecycle operations with   *)
(* every driver result. *)
FanSeqs(S, n) == [1..n -> S]

FanNext ==
    \/ \E outcome \in {"ok", "DriverError"} : initialize_peripheral(outcome)
    \/ \E speeds \in FanSeqs(FanSpeeds, Len(fan_config.actuators)),
          fail_at \in 0..SetupCalls :
            setup_peripheral(speeds, fail_at)
    \/ \E temps \in FanSeqs(Temperatures, Len(fan_config.sensors)),
          readings \in FanSeqs(Readings, Len(fan_config.actuators)),
          fail_at \in 0..UpdateCalls :
            update_peripheral(temps, readings, fail_at)
    \/ reset_peripheral
    \/ \E outcome \in {"ok", "DriverError"} : shutdown_peripheral(outcome)

FanSpecInit == LedAtRest /\ FanInit

FanSpec == FanSpecInit /\ [][FanNext]_vars

(* The two peripherals side by side.  They share no variable, so every      *)
(* behaviour of the pair is, for each peripheral, one of its own            *)
(* behaviours: it is enough to let either one run while the other has not   *)
(* acted.                                                                   *)
PairInit == (LedInit /\ FanAtRest) \/ (LedAtRest /\ FanInit)

LedNotStarted == last.op = "none" /\ accepted = 0

FanNotStarted == fan_last.op = "none"

PairNext ==
    \/ FanNotStarted /\ \E request \in PipelineRequests :
                             Produce("p1", request, MaxAccept)
    \/ FanNotStarted /\ \E outcome \in Outcomes : check_events(outcome)
    \/ FanNotStarted /\ \E outcome \in Outcomes : fade_step(outcome)
    \/ FanNotStarted /\ \E outcome \in Outcomes : sunrise_step(outcome)
    \/ FanNotStarted /\ \E outcome \in Outcomes : orbit_step(outcome)
    \/ LedNotStarted /\ \E outcome \in {"ok", "DriverError"} :
                             initialize_peripheral(outcome)
    \/ LedNotStarted /\ \E speeds \in FanSeqs(FanSpeeds, Len(fan_config.actuators)),
                            fail_at \in 0..SetupCalls :
                             setup_peripheral(speeds, fail_at)
    \/ LedNotStarted /\ \E temps \in FanSeqs(Temperatures, Len(fan_config.sensors)),
                            readings \in FanSeqs(Readings, Len(fan_config.actuators)),
                            fail_at \in 0..UpdateCalls :
                             update_peripheral(temps, readings, fail_at)
    \/ LedNotStarted /\ reset_peripheral
    \/ LedNotStarted /\ \E outcome \in {"ok", "DriverError"} :
                             shutdown_peripheral(outcome)

PairSpec == PairInit /\ [][PairNext]_vars

-----------------------------------------------------------------------------
(* Properties *)

SetChannelRequest(chars) == [type |-> SET_CHANNEL_EVENT, value |-> Str(chars)]

(* C1: a submission of any of the six command types, with any payload,     *)
(* made while Mode is not MANUAL returns status 400 and leaves the queue    *)
(* as it was.  (ValSpec)                                                    *)
C1_RejectedOutsideManual ==
    [][\A request \in RawRequests :
           (mode # MANUAL /\ request.type \in EventTypes /\ Submit("p1", request))
               => (last'.response.status = 400 /\ queue' = queue)]_vars

C1_Witness ==
    /\ mode = "NORMAL"
    /\ config.channel_names = AllSix
    /\ last.op = "create"
    /\ last.request = SetChannelRequest(<<"R", ",", "4", "0">>)
    /\ last.response.status = 400
    /\ queue = <<>>

(* Payloads naming a channel and a percent within [0,100], with the channel *)
(* and the percent they stand for.                                          *)
C2_Cases ==
    { [chars |-> <<"R", ",", "0">>, channel |-> "R", percent |-> 0],
      [chars |-> <<"R", ",", "4", "0">>, channel |-> "R", percent |-> 40],
      [chars |-> <<"R", ",", "1", "0", "0">>, channel |-> "R", percent |-> 100],
      [chars |-> <<"R", ",", " ", "4", "0">>, channel |-> "R", percent |-> 40],
      [chars |-> <<"B", ",", "1", "0", "0">>, channel |-> "B", percent |-> 100] }

C2_Accepted ==
    \A k \in C2_Cases :
        (mode = MANUAL /\ k.channel \in Range(config.channel_names))
            => LET r == set_channel(SetChannelRequest(k.chars)) IN
               /\ r.status = 200
               /\ r.put = <<[type |-> SET_CHANNEL_EVENT, channel |-> k.channel,
                             percent |-> F(k.percent)]>>

C2_Dispatched == last.op = "handle" /\ last.type = SET_CHANNEL_EVENT

(* C2 as stated: SetChannel(c, p) with c declared and p in [0,100] is       *)
(* accepted with 200 in MANUAL mode, and once it has been dispatched        *)
(* ChannelSetpoints[c] = p.  (Spec)                                         *)
C2_AsClaimed ==
    /\ C2_Accepted
    /\ C2_Dispatched
           => channel_setpoints[last.request.channel] = last.request.percent

(* C2, amended: SetChannel(c, p) with c declared and p in [0,100] is        *)
(* accepted with 200 in MANUAL mode, and once it has been dispatched and    *)
(* the driver's set_output did not fail, ChannelSetpoints[c] = p.  (Spec)   *)
C2_UnlessDriverFails ==
    /\ C2_Accepted
    /\ (C2_Dispatched /\ last.outcome = "ok")
           => channel_setpoints[last.request.channel] = last.request.percent

C2_Witness ==
    /\ mode = MANUAL
    /\ config.channel_names = AllSix
    /\ last = Handled([type |-> SET_CHANNEL_EVENT, channel |-> "R",
                       percent |-> F(40)], "ok")
    /\ channel_setpoints["R"] = F(40)
    /\ channel_setpoints["B"] = F(0)

(* Requests SetChannel must turn down: no value field, no comma, a percent  *)
(* that is no number, a percent outside [0,100], an undeclared channel.     *)
C3_BadRequests ==
    { [type |-> SET_CHANNEL_EVENT] }
    \cup { SetChannelRequest(chars) :
               chars \in { <<"R">>, <<>>,
                           <<"R", ",", "a", "b", "c">>, <<"R", ",">>,
                           <<"R", ",", "-", "1">>, <<"R", ",", "1", "0", "1">>,
                           <<"R", ",", "1", "5", "0">>,
                           <<"X", ",", "4", "0">> } }

(* C3 as stated: in MANUAL mode such a SetChannel is rejected with status   *)
(* 400 and enqueues nothing.  (ValSpec)                                     *)
C3_AsClaimed ==
    (last.op = "create" /\ mode = MANUAL /\ last.request \in C3_BadRequests)
        => (last.response.status = 400 /\ last.response.put = <<>>)

LacksRequiredChannel ==
    ~({"R", "FR", "WW", "CW", "G", "B"} \subseteq Range(config.channel_names))

(* C4 as stated: a Sunrise or Orbit submission is rejected with 500 exactly *)
(* when the configured channels lack a required channel, and a rejected     *)
(* submission enqueues nothing.  (ValSpec)                                  *)
C4_AsClaimed ==
    [][\A request \in RawRequests :
           (request.type \in {SUNRISE_EVENT, ORBIT_EVENT} /\ Submit("p1", request))
               => /\ last'.response.status = 500 <=> LacksRequiredChannel
                  /\ last'.response.status # 200 => queue' = queue]_vars

(* C4, amended: in MANUAL mode a Sunrise or Orbit submission is rejected    *)
(* with 500 exactly when the configured channels lack a required channel;   *)
(* in every mode a rejected submission enqueues nothing.  (ValSpec)         *)
C4_InManualMode ==
    [][\A request \in RawRequests :
           (request.type \in {SUNRISE_EVENT, ORBIT_EVENT} /\ Submit("p1", request))
               => /\ mode = MANUAL
                      => (last'.response.status = 500 <=> LacksRequiredChannel)
                  /\ last'.response.status # 200 => queue' = queue]_vars

C4_Witness ==
    /\ mode = MANUAL
    /\ config.channel_names = OnlyRed
    /\ last.op = "create"
    /\ last.request.type = ORBIT_EVENT
    /\ last.response.status = 500
    /\ queue = <<>>

(* C5: in MANUAL mode every TurnOn, TurnOff and Fade submission, whatever   *)
(* its payload, returns 200 and appends exactly one command of its type to  *)
(* the tail of the queue.  (ValSpec)                                        *)
C5_AlwaysEnqueued ==
    [][\A request \in RawRequests :
           (/\ mode = MANUAL
            /\ request.type \in {TURN_ON_EVENT, TURN_OFF_EVENT, FADE_EVENT}
            /\ Submit("p1", request))
               => /\ last'.response.status = 200
                  /\ Len(queue') = Len(queue) + 1
                  /\ SubSeq(queue', 1, Len(queue)) = queue
                  /\ queue'[Len(queue')].request = [type |-> request.type]]_vars

C5_Witness ==
    /\ mode = MANUAL
    /\ last.op = "create"
    /\ last.request.type = TURN_OFF_EVENT
    /\ last.response.status = 200
    /\ Len(queue) = 2
    /\ queue[1].request.type = FADE_EVENT
    /\ queue[2].request.type = TURN_OFF_EVENT

(* C6: commands of one producer are routed in the order they were accepted: *)
(* no command waits in the queue while a command the same producer had      *)
(* accepted later has already been routed.  (FifoSpec)                      *)
C6_FifoPerProducer ==
    \A i \in 1..Len(queue) : queue[i].ticket > routed[queue[i].producer]

(* p1's Fade was routed first and has been preempted; p2's command and then *)
(* p1's second command wait in that order.                                  *)
C6_Witness ==
    /\ last = Handled([type |-> FADE_EVENT], "preempted")
    /\ routed = [p \in Producers |-> IF p = "p1" THEN 1 ELSE 0]
    /\ Len(queue) = 2
    /\ queue[1].producer = "p2" /\ queue[1].ticket = 2
    /\ queue[2].producer = "p1" /\ queue[2].ticket = 3

(* C7 as stated: once a newer command waits in the queue, a running Fade,   *)
(* Sunrise or Orbit issues at most one further output write.  (Spec)        *)
C7_AsClaimed == extra <= 1

(* C8 as stated: no validator calls a driver operation.  (ValSpec)          *)
C8_AsClaimed == last.op = "create" => last.response.driver = <<>>

(* C9: when the driver call of a TurnOn, TurnOff or SetChannel handler      *)
(* raises DriverError, Mode becomes ERROR, ChannelSetpoints stays what it   *)
(* was, and the handler returns, leaving the dispatcher free for the rest   *)
(* of the queue.  (Spec)                                                    *)
C9_DriverFailure ==
    [][(/\ pc = Idle
        /\ queue # <<>>
        /\ Head(queue).request.type
               \in {TURN_ON_EVENT, TURN_OFF_EVENT, SET_CHANNEL_EVENT}
        /\ check_events("DriverError"))
           => /\ mode' = ERROR
              /\ channel_setpoints' = channel_setpoints
              /\ pc' = Idle
              /\ queue' = Tail(queue)]_vars

C9_Witness ==
    /\ last.op = "handle"
    /\ last.type = TURN_ON_EVENT
    /\ last.outcome = "DriverError"
    /\ mode = ERROR
    /\ pc = Idle
    /\ queue # <<>>
    /\ config.channel_names = AllSix
    /\ channel_setpoints = build_channel_outputs(F(0))

(* C10: after an update pass without driver failure, health is 60 if some   *)
(* tachometer-enabled actuator read a duty cycle above 0 with a fan speed   *)
(* of 0 in that pass, and 100 otherwise.  (FanSpec)                         *)
C10_HealthOfPass ==
    (fan_last.op = "update" /\ fan_last.outcome = "ok")
        => health =
               IF \E j \in 1..Len(fan_config.actuators) :
                      /\ fan_config.actuators[j].tachometer_enabled
                      /\ fan_last.readings[j].duty_cycle > 0
                      /\ fan_last.readings[j].fan_speed = 0
               THEN 60 ELSE 100

(* The tachometer fan (second of two) stands still at 40 % while the fan    *)
(* without tachometer spins: 60.                                            *)
C10_Witness ==
    /\ fan_last.op = "update"
    /\ fan_last.outcome = "ok"
    /\ Len(fan_config.actuators) = 2
    /\ fan_config.actuators[2].tachometer_enabled
    /\ fan_last.readings = <<Reading(40, 1200), Reading(40, 0)>>
    /\ health = 60

(* The store after a pass of which `made` driver reads returned: sensor i   *)
(* is written after read i, actuator j after both of its reads.             *)
C11_StoreAfter(st, temps, readings, made) ==
    LET sensors == fan_config.sensors
        actuators == fan_config.actuators
        S == Len(sensors)
    IN [n \in DOMAIN st |->
           IF \E i \in 1..S : sensors[i].variable_name = n /\ i <= made
           THEN Some(temps[CHOOSE i \in 1..S : sensors[i].variable_name = n])
           ELSE IF \E j \in 1..Len(actuators) :
                       actuators[j].duty_cycle_name = n /\ S + 2 * j <= made
           THEN Some(readings[CHOOSE j \in 1..Len(actuators) :
                                  actuators[j].duty_cycle_name = n].duty_cycle)
           ELSE IF \E j \in 1..Len(actuators) :
                       actuators[j].fan_speed_name = n /\ S + 2 * j <= made
           THEN Some(readings[CHOOSE j \in 1..Len(actuators) :
                                  actuators[j].fan_speed_name = n].fan_speed)
           ELSE st[n]]

(* C11: when a driver read fails during an update pass, the pass stops      *)
(* there: no later read is made, the store holds what it held before the    *)
(* pass plus the values written before the failing read, Mode is ERROR and  *)
(* health is 0.  (FanSpec)                                                  *)
C11_PassAborted ==
    [][(fan_last'.op = "update" /\ fan_last'.outcome = "DriverError")
           => /\ fan_mode' = ERROR
              /\ health' = 0
              /\ fan_last'.calls < UpdateCalls
              /\ \E temps \in FanSeqs(Temperatures, Len(fan_config.sensors)) :
                     store' = C11_StoreAfter(store, temps, fan_last'.readings,
                                             fan_last'.calls)]_vars

(* The first fan's speed read failed: the temperature is in the store, no   *)
(* actuator value is.                                                       *)
C11_Witness ==
    /\ fan_last.op = "update"
    /\ fan_last.outcome = "DriverError"
    /\ Len(fan_config.actuators) = 2
    /\ fan_last.calls = 2
    /\ store[<<"temp", 0>>] = Some(21)
    /\ store[<<"duty", 1>>] = None
    /\ store[<<"speed", 2>>] = None
    /\ fan_mode = ERROR
    /\ health = 0

(* C12: a DriverError at any driver call of setup leaves Mode ERROR and     *)
(* health 0 when setup returns, however many calls had returned and also    *)
(* when a verified fan had already lowered health to 60.  (FanSpec)         *)
C12_SetupFailure ==
    (fan_last.op = "setup" /\ fan_last.outcome = "DriverError")
        => (fan_mode = ERROR /\ health = 0)

(* The last driver call of setup failed, after the tachometer fan had been  *)
(* read standing still.                                                     *)
C12_Witness ==
    /\ fan_last.op = "setup"
    /\ fan_last.outcome = "DriverError"
    /\ Len(fan_config.actuators) = 2
    /\ fan_config.actuators[1].tachometer_enabled
    /\ fan_last.readings[1] = 0
    /\ fan_last.calls = 6
    /\ fan_mode = ERROR
    /\ health = 0

C13_StalledFan(speeds) ==
    \E j \in 1..Len(fan_config.actuators) :
        fan_config.actuators[j].tachometer_enabled /\ speeds[j] = 0

(* C13: when setup completes without driver failure, Mode is unchanged;     *)
(* health is 60 if some tachometer-enabled fan read a speed of 0 and is     *)
(* left as it was otherwise, which is the 100 of a successful init when     *)
(* setup follows it.  (FanSpec)                                             *)
C13_SetupVerification ==
    [][(fan_last'.op = "setup" /\ fan_last'.outcome = "ok")
           => /\ fan_mode' = fan_mode
              /\ C13_StalledFan(fan_last'.readings) => health' = 60
              /\ ~C13_StalledFan(fan_last'.readings) => health' = health
              /\ (/\ ~C13_StalledFan(fan_last'.readings)
                  /\ fan_last.op = "initialize"
                  /\ fan_last.outcome = "ok") => health' = 100]_vars

(* One manual tachometer fan read standing still: 60, Mode still MANUAL. *)
C13_Witness ==
    /\ fan_last.op = "setup"
    /\ fan_last.outcome = "ok"
    /\ Len(fan_config.actuators) = 1
    /\ fan_config.actuators[1].tachometer_enabled
    /\ fan_last.readings = <<0>>
    /\ health = 60
    /\ fan_mode = MANUAL

(* C14 as stated: shutdown returns from every lifecycle state, a failing    *)
(* driver shutdown call included, and leaves every configured sensor and    *)
(* actuator value in the store unknown.  (FanSpec)                          *)
C14_AsClaimed ==
    fan_last.op = "shutdown"
        => /\ fan_last.outcome \in {"ok", "DriverError"}
           /\ \A n \in DOMAIN store : store[n] = None

(* A step of the running sequence. *)
SequenceStep(outcome) ==
    fade_step(outcome) \/ sunrise_step(outcome) \/ orbit_step(outcome)

(* C15 as stated: after every output write of a Fade, Sunrise or Orbit the  *)
(* queue is checked before the next write, and a non-empty queue makes the  *)
(* handler return: a step taken with a command waiting ends the sequence.   *)
(* (Spec)                                                                   *)
C15_AsClaimed ==
    [][\A outcome \in Outcomes :
           (queue # <<>> /\ SequenceStep(outcome)) => pc' = Idle]_vars

(* C16 as stated: every wait is followed at once by a queue check, so a     *)
(* command that arrived during the wait ends the sequence with no further   *)
(* output write.  (Spec)                                                    *)
C16_AsClaimed ==
    [][(InWait /\ queue # <<>> /\ pc' # pc) => extra' = extra]_vars

(* C17 as stated: a driver failure in an output step of a Fade, Sunrise or  *)
(* Orbit makes the handler return, and leaves Mode as it was.  (Spec)       *)
C17_AsClaimed ==
    [][\A outcome \in {"DriverError", "Exception"} :
           SequenceStep(outcome) => (pc' = Idle /\ mode' = mode)]_vars

(* C18: when the turn-off that opens a Fade, Sunrise or Orbit fails, the    *)
(* handler returns before any output write, and Mode, health and the        *)
(* setpoints are what they were.  (Spec)                                    *)
C18_TurnOffFailure ==
    [][\A outcome \in {"DriverError", "Exception"} :
           (/\ pc = Idle
            /\ queue # <<>>
            /\ Head(queue).request.type
                   \in {FADE_EVENT, SUNRISE_EVENT, ORBIT_EVENT}
            /\ check_events(outcome))
               => /\ pc' = Idle
                  /\ extra' = 0
                  /\ mode' = mode
                  /\ led_health' = led_health
                  /\ channel_setpoints' = channel_setpoints]_vars

C18_Witness ==
    /\ last = Handled([type |-> ORBIT_EVENT], "turn off failed")
    /\ pc = Idle
    /\ mode = MANUAL
    /\ config.channel_names = AllSix
    /\ channel_setpoints["R"] = F(40)

(* C19 as stated: a running sequence returns only because a checkpoint      *)
(* found the queue non-empty.  (Spec)                                       *)
C19_AsClaimed ==
    [][\A outcome \in Outcomes :
           (SequenceStep(outcome) /\ pc' = Idle) => queue # <<>>]_vars

(* C19, amended: a running sequence never returns while the queue is empty  *)
(* and its output writes succeed; when it returns, a checkpoint found the   *)
(* queue non-empty or an output write failed.  (Spec)                       *)
C19_ReturnsOnlyWhenStopped ==
    [][\A outcome \in Outcomes :
           (SequenceStep(outcome) /\ pc' = Idle)
               => (queue # <<>> \/ outcome # "ok")]_vars

(* A Fade has returned on a failed write with nothing in the queue. *)
C19_Witness ==
    /\ last = Handled([type |-> FADE_EVENT], "aborted")
    /\ pc = Idle
    /\ queue = <<>>
    /\ mode = MANUAL

(* C20 as stated: a handler that has made its driver call was dispatched in *)
(* MANUAL mode; none makes one once Mode is ERROR.  (Spec)                  *)
C20_AsClaimed ==
    (last.op = "handle" /\ last.outcome \in {"ok", "running"}) => mode = MANUAL

SimpleHandlers == {TURN_ON_EVENT, TURN_OFF_EVENT, SET_CHANNEL_EVENT}

(* C21 as stated: a DriverError caught by a command handler forces Mode to  *)
(* ERROR and the peripheral's health to 0.  (Spec)                          *)
C21_AsClaimed ==
    (last.op = "handle" /\ last.type \in SimpleHandlers
                        /\ last.outcome = "DriverError")
        => (mode = ERROR /\ led_health = 0)

(* C22 as stated: when a handler that has written driver outputs returns,   *)
(* the state store holds the outputs it commanded: the setpoints after a    *)
(* TurnOn, TurnOff or SetChannel, the last written step after a Fade.       *)
(* (Spec)                                                                   *)
C22_AsClaimed ==
    [][/\ (last'.op = "handle" /\ last'.type \in SimpleHandlers
                               /\ last'.outcome = "ok")
              => reported' = channel_setpoints'
       /\ (pc.h = "fade" /\ config.channel_names # <<>>
                         /\ fade_step("ok") /\ pc' = Idle)
              => reported'[fade_output.channel] = F(fade_output.percent)]_vars

C24_SequencesKeepSetpoints ==
    [][/\ \A outcome \in Outcomes :
              (\/ SequenceStep(outcome)
               \/ /\ pc = Idle
                  /\ queue # <<>>
                  /\ Head(queue).request.type
                         \in {FADE_EVENT, SUNRISE_EVENT, ORBIT_EVENT}
                  /\ check_events(outcome))
                  => UNCHANGED <<channel_setpoints, mode, reported>>
       /\ channel_setpoints' # channel_setpoints
              => /\ pc = Idle
                 /\ queue # <<>>
                 /\ Head(queue).request.type \in SimpleHandlers]_vars

(* Red had been set to 40; a Fade then ran until one of its writes failed. *)
C24_Witness ==
    /\ last = Handled([type |-> FADE_EVENT], "aborted")
    /\ config.channel_names = AllSix
    /\ channel_setpoints["R"] = F(40)
    /\ reported = channel_setpoints
    /\ mode = MANUAL

(* C25: whatever init, setup, update, reset and shutdown operations the fan *)
(* manager runs, health is 0, 60 or 100, and an operation that brings       *)
(* health to 0 sets Mode to ERROR.  (FanSpec)                               *)
C25_HealthValues ==
    [][/\ health' \in {0, 60, 100}
       /\ (health' = 0 /\ fan_last' # fan_last) => fan_mode' = ERROR]_vars

(* A setup that failed after some of its driver calls had returned. *)
C25_Witness ==
    /\ fan_last.op = "setup"
    /\ fan_last.outcome = "DriverError"
    /\ health = 0
    /\ fan_mode = ERROR
    /\ fan_last.calls > 0

(* C26: no operation of the two peripherals (validator, handler, sequence   *)
(* step, init, setup, update, reset, shutdown) changes Mode to anything but *)
(* ERROR: once Mode is ERROR it stays ERROR.  (PairSpec)                    *)
C26_OnlyToError ==
    [][/\ mode' # mode => mode' = ERROR
       /\ fan_mode' # fan_mode => fan_mode' = ERROR
       /\ mode = ERROR => mode' = ERROR
       /\ fan_mode = ERROR => fan_mode' = ERROR]_vars

(* The fan manager was initialized again, successfully, after a failure:    *)
(* health is back at 100, Mode is still ERROR.                              *)
C26_Witness ==
    /\ fan_last.op = "initialize"
    /\ fan_last.outcome = "ok"
    /\ health = 100
    /\ fan_mode = ERROR

====
